---- MODULE Spec2Model ----
(***************************************************************************)
(* Model of txttoexel.py: the row normalizer parse_rows, the chunked       *)
(* writer write_chunk, the streaming driver process_txt and the start-up   *)
(* code that selects the input file.                                       *)
(*                                                                         *)
(* A Python str is modelled as a sequence of one-character strings, a      *)
(* list as a sequence, a record tuple as a 4-element sequence of strs.     *)
(***************************************************************************)
EXTENDS Integers, Sequences, FiniteSets, TLC

VARIABLES
    pc,          \* position in the program
    nargs,       \* len(sys.argv) - 1
    argIsFile,   \* Path(sys.argv[1]).is_file()
    cwdTxt,      \* list(Path.cwd().glob("*.txt")): the kind of each entry
    chosen,      \* where input_path came from: "none", "arg", "cwd"
    message,     \* what the start-up code printed last
    exit_status, \* process exit status, -1 while running
    limit,       \* CHUNK_LIMIT
    file,        \* the raw lines of the input file, terminators included
    pos,         \* number of lines the iteration over fp has consumed
    fileOpen,    \* fp is open
    raw_line,    \* parse_rows: raw_line
    line,        \* parse_rows: line
    parts,       \* parse_rows: parts
    repairs,     \* how often line 59 ran for the current line
    stream,      \* every tuple parse_rows has yielded, in order
    dropped,     \* number of lines that fell through to line 113
    buffer,      \* process_txt: buffer
    part_no,     \* process_txt: part_no
    calls,       \* the part_no of every write_chunk call, in order
    written      \* the workbooks on disk: <<part_no, rows>>, in write order

vars == <<pc, nargs, argIsFile, cwdTxt, chosen, message, exit_status, limit,
          file, pos, fileOpen, raw_line, line, parts, repairs, stream,
          dropped, buffer, part_no, calls, written>>

(***************************************************************************)
(* User settings                                                           *)
(***************************************************************************)
COL_SEP == ":"
PHONE_COL == 0
FIRST_COL == 2
LAST_COL == 3
CITY_COL == 5
\* parts[5:] in the location scan
LocSliceStart == 5
\* count=2 in re.sub
RepairCount == 2

HEADER == <<"Phone", "FirstName", "LastName", "City">>

Max2(a, b) == IF a >= b THEN a ELSE b

\* max(PHONE_COL, FIRST_COL, LAST_COL, CITY_COL)
MaxCol == Max2(Max2(PHONE_COL, FIRST_COL), Max2(LAST_COL, CITY_COL))

(***************************************************************************)
(* str primitives                                                          *)
(***************************************************************************)
\* the characters \s matches and str.strip() removes
Whitespace == {" ", "\t", "\r", "\n"}

Digits == {"0", "1", "2", "3", "4", "5", "6", "7", "8", "9"}

UpperToLower ==
    [c \in {"A","B","C","D","E","F","G","H","I","J","K","L","M","N","O","P",
            "Q","R","S","T","U","V","W","X","Y","Z"} |->
        CASE c = "A" -> "a" [] c = "B" -> "b" [] c = "C" -> "c" [] c = "D" -> "d"
          [] c = "E" -> "e" [] c = "F" -> "f" [] c = "G" -> "g" [] c = "H" -> "h"
          [] c = "I" -> "i" [] c = "J" -> "j" [] c = "K" -> "k" [] c = "L" -> "l"
          [] c = "M" -> "m" [] c = "N" -> "n" [] c = "O" -> "o" [] c = "P" -> "p"
          [] c = "Q" -> "q" [] c = "R" -> "r" [] c = "S" -> "s" [] c = "T" -> "t"
          [] c = "U" -> "u" [] c = "V" -> "v" [] c = "W" -> "w" [] c = "X" -> "x"
          [] c = "Y" -> "y" [] c = "Z" -> "z"]

\* str.lower()
Lower(s) ==
    [i \in 1..Len(s) |-> IF s[i] \in DOMAIN UpperToLower THEN UpperToLower[s[i]] ELSE s[i]]

\* c in s
Contains(s, c) == \E i \in 1..Len(s) : s[i] = c

RECURSIVE LStrip(_)
LStrip(s) ==
    IF s # <<>> /\ Head(s) \in Whitespace THEN LStrip(Tail(s)) ELSE s

RECURSIVE RStrip(_)
RStrip(s) ==
    IF s # <<>> /\ s[Len(s)] \in Whitespace THEN RStrip(SubSeq(s, 1, Len(s) - 1)) ELSE s

\* str.strip()
Strip(s) == RStrip(LStrip(s))

\* str.rstrip("\n")
RECURSIVE RStripNewline(_)
RStripNewline(s) ==
    IF s # <<>> /\ s[Len(s)] = "\n" THEN RStripNewline(SubSeq(s, 1, Len(s) - 1)) ELSE s

\* str.split(sep) for a one-character sep: cur is the field being read,
\* acc the fields already closed
RECURSIVE SplitFrom(_, _, _, _)
SplitFrom(s, sep, cur, acc) ==
    IF s = <<>> THEN Append(acc, cur)
    ELSE IF Head(s) = sep THEN SplitFrom(Tail(s), sep, <<>>, Append(acc, cur))
    ELSE SplitFrom(Tail(s), sep, Append(cur, Head(s)), acc)

Split(s, sep) == SplitFrom(s, sep, <<>>, <<>>)

\* re.sub(r"\s+", repl, s, count=n): the first n maximal whitespace runs,
\* left to right, each become repl
RECURSIVE SubWhitespace(_, _, _)
SubWhitespace(s, repl, n) ==
    IF s = <<>> \/ n = 0 THEN s
    ELSE IF Head(s) \in Whitespace
         THEN <<repl>> \o SubWhitespace(LStrip(Tail(s)), repl, n - 1)
         ELSE <<Head(s)>> \o SubWhitespace(Tail(s), repl, n)

\* re.fullmatch(r"[0-9\-]+", s)
FullMatchDigitsHyphens(s) ==
    /\ s # <<>>
    /\ \A i \in 1..Len(s) : s[i] \in Digits \cup {"-"}

(***************************************************************************)
(* parse_rows, per line                                                    *)
(***************************************************************************)
skip_tokens == {
    <<"m","a","l","e">>,
    <<"f","e","m","a","l","e">>,
    <<"s","i","n","g","l","e">>,
    <<"m","a","r","r","i","e","d">>,
    <<"w","i","d","o","w","e","d">>,
    <<"d","i","v","o","r","c","e","d">>,
    <<"e","n","g","a","g","e","d">>,
    <<"i","n"," ","a"," ","r","e","l","a","t","i","o","n","s","h","i","p">>,
    <<"i","t","'","s"," ","c","o","m","p","l","i","c","a","t","e","d">> }

\* Excluded comparing the token as written, without lower()
ExcludedCaseSensitive(value) ==
    \/ value = <<>>
    \/ value \in skip_tokens
    \/ Contains(value, "/")
    \/ FullMatchDigitsHyphens(value)

\* the four continue tests of the location loop, in the order of the code
Excluded(value) ==
    \/ value = <<>>
    \/ Lower(value) \in skip_tokens
    \/ Contains(value, "/")
    \/ FullMatchDigitsHyphens(value)

\* the for loop over parts[5:]: i is a 1-based index into ps
RECURSIVE ScanLocation(_, _)
ScanLocation(ps, i) ==
    IF i > Len(ps) THEN <<>>
    ELSE IF Excluded(Strip(ps[i])) THEN ScanLocation(ps, i + 1)
    ELSE Strip(ps[i])

location_raw(ps) == ScanLocation(ps, LocSliceStart + 1)

\* [seg.strip() for seg in location_raw.split(",") if seg.strip()]
RECURSIVE KeepNonEmptyStripped(_)
KeepNonEmptyStripped(segs) ==
    IF segs = <<>> THEN <<>>
    ELSE IF Strip(Head(segs)) # <<>>
         THEN <<Strip(Head(segs))>> \o KeepNonEmptyStripped(Tail(segs))
         ELSE KeepNonEmptyStripped(Tail(segs))

segments(loc) == KeepNonEmptyStripped(Split(loc, ","))

\* FormatCity with the two segments in the order they were given
FormatCityCityFirst(country_segment, city_segment) ==
    city_segment \o <<":", " ">> \o country_segment

\* f"{country_segment}: {city_segment}"
FormatCity(country_segment, city_segment) ==
    country_segment \o <<":", " ">> \o city_segment

city_field(loc) ==
    IF loc = <<>> THEN <<>>
    ELSE IF Contains(loc, ",")
         THEN IF segments(loc) # <<>>
              THEN FormatCity(segments(loc)[Len(segments(loc))], segments(loc)[1])
              ELSE <<>>
         ELSE loc

\* the yielded tuple
Row(ps) ==
    << Strip(ps[PHONE_COL + 1]), Strip(ps[FIRST_COL + 1]), Strip(ps[LAST_COL + 1]),
       city_field(location_raw(ps)) >>

\* Insufficient with < for <=
InsufficientStrict(ps) == Len(ps) < MaxCol

\* len(parts) <= max(...)
Insufficient(ps) == Len(ps) <= MaxCol

\* RepairedParts replacing three whitespace runs
RepairedPartsThree(l) == Split(SubWhitespace(l, COL_SEP, RepairCount + 1), COL_SEP)

\* line 59-60
RepairedParts(l) == Split(SubWhitespace(l, COL_SEP, RepairCount), COL_SEP)

\* lines 50-60 for one raw line: the parts that reach the test of line 63
PartsAfterFix(raw) ==
    IF Insufficient(Split(RStripNewline(raw), COL_SEP))
    THEN RepairedParts(RStripNewline(raw))
    ELSE Split(RStripNewline(raw), COL_SEP)

(***************************************************************************)
(* Input lines                                                             *)
(***************************************************************************)
\* longest input file, in lines
MaxLines == 5
\* largest row limit
MaxLimit == 3
\* most *.txt entries in the current directory
MaxCwd == 2
\* most fields a generated line has from index 5 on
MaxTail == 2
\* how many of the leading separators of a generated line vary
FreeSeps == 3

\* phone, id, first name, last name, gender
HeadTok == << <<"7">>, <<"1">>, <<"A">>, <<"B">>, <<"M">> >>

\* what may stand where a delimiter belongs: the delimiter, a whitespace
\* run in its place, the delimiter followed by a blank
SepPool == { <<":">>, <<" ", "\t">>, <<":", " ">> }

\* fields of the location area
TailPool == {
    <<" ">>,
    <<" ", "S", "i", "n", "g", "l", "e">>,
    <<"9", "/", "1">>,
    <<"1", "-", "7">>,
    <<"7", "a">>,
    <<"a", ",", " ", "b">>,
    <<"a", ",", "b", ",", "c">>,
    <<"U", ",">>,
    <<",">> }

\* line terminators the text layer leaves on a line (newline="")
TermPool == { <<"\n">>, <<"\r", "\n">>, <<>> }

SepChoices(n) ==
    { f \in [1..n -> SepPool] : \A i \in 1..n : i > FreeSeps => f[i] = <<COL_SEP>> }

\* the first k head tokens, token i followed by seps[i] when seps has one
RECURSIVE JoinHead(_, _, _)
JoinHead(i, k, seps) ==
    IF i > k THEN <<>>
    ELSE HeadTok[i] \o (IF i <= Len(seps) THEN seps[i] ELSE <<>>) \o JoinHead(i + 1, k, seps)

RECURSIVE JoinTail(_)
JoinTail(ts) ==
    IF ts = <<>> THEN <<>>
    ELSE IF Len(ts) = 1 THEN ts[1]
    ELSE ts[1] \o <<COL_SEP>> \o JoinTail(Tail(ts))

TailSeqs == UNION { [1..n -> TailPool] : n \in 1..MaxTail }

ShortContents ==
    { JoinHead(1, k, seps) : <<k, seps>> \in
        UNION { {k} \X SepChoices(k - 1) : k \in 1..Len(HeadTok) } }

LongContents ==
    { JoinHead(1, Len(HeadTok), seps) \o JoinTail(ts) :
        <<seps, ts>> \in SepChoices(Len(HeadTok)) \X TailSeqs }

RawLines == { c \o t : <<c, t>> \in (ShortContents \cup LongContents) \X TermPool }

(***************************************************************************)
(* parse_rows as steps of the generator                                    *)
(***************************************************************************)
env == <<nargs, argIsFile, cwdTxt, chosen, message, exit_status, limit>>
src == <<file, fileOpen>>
out == <<part_no, calls, written>>

\* lines 50-53
NaiveSplit ==
    /\ pc = "split"
    /\ line' = RStripNewline(raw_line)
    /\ parts' = Split(RStripNewline(raw_line), COL_SEP)
    /\ pc' = "fix"
    /\ UNCHANGED <<env, src, out, pos, raw_line, repairs, stream, dropped, buffer>>

\* Repair without the test of line 58
RepairAlways ==
    /\ pc = "fix"
    /\ parts' = RepairedParts(line)
    /\ repairs' = repairs + 1
    /\ pc' = "validate"
    /\ UNCHANGED <<env, src, out, pos, raw_line, line, stream, dropped, buffer>>

\* lines 58-60, the condition true
Repair ==
    /\ pc = "fix"
    /\ Insufficient(parts)
    /\ parts' = RepairedParts(line)
    /\ repairs' = repairs + 1
    /\ pc' = "validate"
    /\ UNCHANGED <<env, src, out, pos, raw_line, line, stream, dropped, buffer>>

\* line 58, the condition false
NoRepair ==
    /\ pc = "fix"
    /\ ~Insufficient(parts)
    /\ pc' = "validate"
    /\ UNCHANGED <<env, src, out, pos, raw_line, line, parts, repairs, stream, dropped, buffer>>

\* Emit comparing the buffer's length with the limit before the append
EmitLateFlush ==
    /\ pc = "validate"
    /\ ~Insufficient(parts)
    /\ stream' = Append(stream, Row(parts))
    /\ buffer' = Append(buffer, Row(parts))
    /\ pc' = IF Len(buffer) = limit THEN "flush" ELSE "next"
    /\ UNCHANGED <<env, src, out, pos, raw_line, line, parts, repairs, dropped>>

\* lines 63-112 and the consumer's lines 132-133: the tuple is yielded,
\* appended to the buffer and the buffer's length compared with the limit
Emit ==
    /\ pc = "validate"
    /\ ~Insufficient(parts)
    /\ stream' = Append(stream, Row(parts))
    /\ buffer' = Append(buffer, Row(parts))
    /\ pc' = IF Len(buffer) + 1 = limit THEN "flush" ELSE "next"
    /\ UNCHANGED <<env, src, out, pos, raw_line, line, parts, repairs, dropped>>

\* line 113: the line is skipped
Drop ==
    /\ pc = "validate"
    /\ Insufficient(parts)
    /\ dropped' = dropped + 1
    /\ pc' = "next"
    /\ UNCHANGED <<env, src, out, pos, raw_line, line, parts, repairs, stream, buffer>>

NormNext == NaiveSplit \/ Repair \/ NoRepair \/ Emit \/ Drop

\* parse_rows holding the first line of a one-line file
NormInit ==
    /\ raw_line \in RawLines
    /\ file = <<raw_line>>
    /\ pos = 1
    /\ fileOpen = TRUE
    /\ pc = "split"
    /\ nargs = 1 /\ argIsFile = TRUE /\ cwdTxt = <<>> /\ chosen = "arg"
    /\ message = "none" /\ exit_status = -1
    /\ limit = MaxLimit
    /\ line = <<>> /\ parts = <<>> /\ repairs = 0
    /\ stream = <<>> /\ dropped = 0
    /\ buffer = <<>> /\ part_no = 1 /\ calls = <<>> /\ written = <<>>

NormSpec == NormInit /\ [][NormNext]_vars

(***************************************************************************)
(* write_chunk, process_txt and the start-up code                          *)
(***************************************************************************)
\* the lines input files are made of: a well-formed line, a line whose
\* first delimiter is a whitespace run, a line one field short with nothing to repair
DriverLines == {
    <<"7", ":", "1", ":", "A", ":", "B", ":", "M", ":", "a", ",", " ", "b", "\n">>,
    <<"7", " ", "\t", "1", ":", "A", ":", "B", ":", "M", ":", "7", "a", "\r", "\n">>,
    <<"7", ":", "1", ":", "A", ":", "B", ":", "M", "\n">> }

Files == UNION { [1..n -> DriverLines] : n \in 0..MaxLines }

norm == <<raw_line, line, parts, repairs, stream, dropped>>

\* the workbook write_chunk leaves on disk: output_<part>.xlsx with the
\* header row and one data row per tuple
Workbook(rows, part) == [part |-> part, header |-> HEADER, rows |-> rows]

\* write_chunk returning normally
WriteChunk(rows, part) ==
    /\ calls' = Append(calls, part)
    /\ written' = Append(written, Workbook(rows, part))

\* write_chunk raising out of to_excel
WriteChunkFails(part) ==
    /\ calls' = Append(calls, part)
    /\ written' = written

\* input_path.is_file()
PathIsFile == IF chosen = "arg" THEN argIsFile ELSE cwdTxt[1] = "file"

\* lines 147-148
SelectArg ==
    /\ pc = "main"
    /\ nargs = 1
    /\ chosen' = "arg"
    /\ pc' = "isfile"
    /\ UNCHANGED <<nargs, argIsFile, cwdTxt, message, exit_status, limit,
                   src, pos, norm, buffer, out>>

\* SelectCwd taking the first *.txt entry whenever there is one
SelectCwdFirst ==
    /\ pc = "main"
    /\ nargs # 1
    /\ Len(cwdTxt) >= 1
    /\ chosen' = "cwd"
    /\ message' = "using"
    /\ pc' = "isfile"
    /\ UNCHANGED <<nargs, argIsFile, cwdTxt, exit_status, limit,
                   src, pos, norm, buffer, out>>

\* lines 149-154
SelectCwd ==
    /\ pc = "main"
    /\ nargs # 1
    /\ Len(cwdTxt) = 1
    /\ chosen' = "cwd"
    /\ message' = "using"
    /\ pc' = "isfile"
    /\ UNCHANGED <<nargs, argIsFile, cwdTxt, exit_status, limit,
                   src, pos, norm, buffer, out>>

\* lines 155-158
UsageExit ==
    /\ pc = "main"
    /\ nargs # 1
    /\ Len(cwdTxt) # 1
    /\ message' = "usage"
    /\ exit_status' = 1
    /\ pc' = "exit"
    /\ UNCHANGED <<nargs, argIsFile, cwdTxt, chosen, limit,
                   src, pos, norm, buffer, out>>

\* lines 160-161
NotFoundExit ==
    /\ pc = "isfile"
    /\ ~PathIsFile
    /\ message' = "not_found"
    /\ exit_status' = 1
    /\ pc' = "exit"
    /\ UNCHANGED <<nargs, argIsFile, cwdTxt, chosen, limit,
                   src, pos, norm, buffer, out>>

\* lines 160, 163, 127-130: process_txt starts and opens the file
Open ==
    /\ pc = "isfile"
    /\ PathIsFile
    /\ \E f \in Files : file' = f
    /\ fileOpen' = TRUE
    /\ pos' = 0
    /\ part_no' = 1
    /\ buffer' = <<>>
    /\ pc' = "next"
    /\ UNCHANGED <<env, norm, calls, written>>

\* line 49: the iteration over fp hands out the next line
ReadLine ==
    /\ pc = "next"
    /\ pos < Len(file)
    /\ pos' = pos + 1
    /\ raw_line' = file[pos + 1]
    /\ repairs' = 0
    /\ pc' = "split"
    /\ UNCHANGED <<env, src, out, line, parts, stream, dropped, buffer>>

\* line 49 at end of file: the generator ends, the with block closes fp
EndOfFile ==
    /\ pc = "next"
    /\ pos = Len(file)
    /\ fileOpen' = FALSE
    /\ pc' = "final"
    /\ UNCHANGED <<env, file, pos, norm, buffer, out>>

\* Flush without buffer.clear()
FlushKeepsBuffer ==
    /\ pc = "flush"
    /\ WriteChunk(buffer, part_no)
    /\ part_no' = part_no + 1
    /\ pc' = "next"
    /\ UNCHANGED <<env, src, pos, norm, buffer>>

\* Flush without part_no += 1
FlushSamePart ==
    /\ pc = "flush"
    /\ WriteChunk(buffer, part_no)
    /\ buffer' = <<>>
    /\ pc' = "next"
    /\ UNCHANGED <<env, src, pos, norm, part_no>>

\* lines 134-136
Flush ==
    /\ pc = "flush"
    /\ WriteChunk(buffer, part_no)
    /\ part_no' = part_no + 1
    /\ buffer' = <<>>
    /\ pc' = "next"
    /\ UNCHANGED <<env, src, pos, norm>>

\* FlushFail with the exception caught around line 134 and the loop going on
FlushFailSwallowed ==
    /\ pc = "flush"
    /\ WriteChunkFails(part_no)
    /\ pc' = "next"
    /\ UNCHANGED <<env, src, pos, norm, buffer, part_no>>

\* line 134 raising: the exception leaves the with block, which closes fp,
\* and ends the process
FlushFail ==
    /\ pc = "flush"
    /\ WriteChunkFails(part_no)
    /\ fileOpen' = FALSE
    /\ exit_status' = 1
    /\ pc' = "failed"
    /\ UNCHANGED <<nargs, argIsFile, cwdTxt, chosen, message, limit,
                   file, pos, norm, buffer, part_no>>

\* lines 139-140, then the process ends
FinalFlush ==
    /\ pc = "final"
    /\ buffer # <<>>
    /\ WriteChunk(buffer, part_no)
    /\ exit_status' = 0
    /\ pc' = "done"
    /\ UNCHANGED <<nargs, argIsFile, cwdTxt, chosen, message, limit,
                   src, pos, norm, buffer, part_no>>

\* line 140 raising
FinalFlushFail ==
    /\ pc = "final"
    /\ buffer # <<>>
    /\ WriteChunkFails(part_no)
    /\ exit_status' = 1
    /\ pc' = "failed"
    /\ UNCHANGED <<nargs, argIsFile, cwdTxt, chosen, message, limit,
                   src, pos, norm, buffer, part_no>>

\* line 139 with an empty buffer, then the process ends
Finish ==
    /\ pc = "final"
    /\ buffer = <<>>
    /\ exit_status' = 0
    /\ pc' = "done"
    /\ UNCHANGED <<nargs, argIsFile, cwdTxt, chosen, message, limit,
                   src, pos, norm, buffer, out>>

CwdListings == UNION { [1..n -> {"file", "dir"}] : n \in 0..MaxCwd }

Init ==
    /\ pc = "main"
    /\ nargs \in 0..2
    /\ argIsFile \in BOOLEAN
    /\ cwdTxt \in CwdListings
    /\ limit \in 1..MaxLimit
    /\ chosen = "none" /\ message = "none" /\ exit_status = -1
    /\ file = <<>> /\ pos = 0 /\ fileOpen = FALSE
    /\ raw_line = <<>> /\ line = <<>> /\ parts = <<>> /\ repairs = 0
    /\ stream = <<>> /\ dropped = 0
    /\ buffer = <<>> /\ part_no = 0 /\ calls = <<>> /\ written = <<>>

Next ==
    \/ SelectArg \/ SelectCwd \/ UsageExit \/ NotFoundExit \/ Open
    \/ ReadLine \/ EndOfFile
    \/ NaiveSplit \/ Repair \/ NoRepair \/ Emit \/ Drop
    \/ Flush \/ FlushFail \/ FinalFlush \/ FinalFlushFail \/ Finish

Spec == Init /\ [][Next]_vars

(***************************************************************************)
(* Properties                                                              *)
(***************************************************************************)
Min2(a, b) == IF a <= b THEN a ELSE b

MinOf(S) == CHOOSE x \in S : \A y \in S : x <= y

RECURSIVE TotalRows(_)
TotalRows(ws) == IF ws = <<>> THEN 0 ELSE Len(Head(ws).rows) + TotalRows(Tail(ws))

\* parse_rows has yielded the tuple of the line it holds
Yielded == stream # <<>> /\ pc \in {"next", "flush"}

\* the naive split of the current line
NaiveParts == Split(line, COL_SEP)

\* C1: at Done, with Q tuples yielded, one per qualifying line, and row
\* limit L, exactly ceil(Q / L)
\* workbooks are on disk and workbook k holds tuples (k-1)*L+1 .. min(k*L, Q)
\* of the yielded stream, in order; all but the last have L rows.
C1_Batching ==
    pc = "done" =>
        LET Q == Len(stream)
            N == (Q + limit - 1) \div limit
        IN /\ Q = Cardinality({ i \in 1..Len(file) : Len(PartsAfterFix(file[i])) > MaxCol })
           /\ Len(written) = N
           /\ \A k \in 1..Len(written) :
                /\ written[k].part = k
                /\ written[k].rows = SubSeq(stream, (k - 1) * limit + 1, Min2(k * limit, Q))
                /\ k < N => Len(written[k].rows) = limit
                /\ k = N => Len(written[k].rows) = Q - (N - 1) * limit

C1_Witness ==
    /\ pc = "done"
    /\ Len(written) = 2
    /\ limit = 2
    /\ Len(stream) = 3
    /\ dropped = 1

\* C2: the part numbers passed to write_chunk so far are 1, 2, ..., n in call
\* order, and the workbooks on disk carry them in that order.
C2_PartNumbers ==
    /\ \A i \in 1..Len(calls) : calls[i] = i
    /\ \A k \in 1..Len(written) : written[k].part = k

C2_Witness ==
    /\ pc = "done"
    /\ calls = <<1, 2, 3>>
    /\ Len(written[3].rows) < limit

\* C3: the buffer never holds more than the row limit, it is flushed as soon
\* as it holds exactly the limit, no workbook has more rows than the limit and
\* only the workbook of the final remainder flush has fewer.
C3_BatchBound ==
    /\ Len(buffer) <= limit
    /\ Len(buffer) = limit => pc \in {"flush", "failed"}
    /\ \A k \in 1..Len(written) :
        /\ Len(written[k].rows) <= limit
        /\ Len(written[k].rows) < limit => k = Len(written) /\ pc = "done"

C3_Witness ==
    /\ pc = "flush"
    /\ Len(buffer) = limit
    /\ limit = 2
    /\ Len(written) = 1

\* C4: a line whose parts after the repair attempt still number at most the
\* maximum required index yields nothing, raises nothing and the loop goes on
\* to the next line; at Done the data rows of all workbooks number the input
\* lines minus those lines.
C4_DropStep ==
    (pc = "validate" /\ Len(PartsAfterFix(raw_line)) <= MaxCol) =>
        /\ pc' = "next"
        /\ stream' = stream
        /\ buffer' = buffer
        /\ written' = written
        /\ exit_status' = exit_status

C4_DoneCount ==
    pc = "done" =>
        TotalRows(written) =
            Len(file) - Cardinality({ i \in 1..Len(file) : Len(PartsAfterFix(file[i])) <= MaxCol })

\* C4: both parts: the step a dropped line takes, and the row count at Done.
C4_Dropped == [](C4_DoneCount) /\ [][C4_DropStep]_vars

C4_Witness ==
    /\ pc = "done"
    /\ Len(file) = 3
    /\ TotalRows(written) = 1
    /\ Len(PartsAfterFix(file[2])) > MaxCol

\* the four tests a location candidate passes, on the trimmed field
C5_Passes(v) ==
    /\ v # <<>>
    /\ \A t \in skip_tokens : Lower(v) # t
    /\ \A i \in 1..Len(v) : v[i] # "/"
    /\ \E i \in 1..Len(v) : v[i] \notin Digits /\ v[i] # "-"

C5_PassingFields == { i \in (CITY_COL + 1)..Len(parts) : C5_Passes(Strip(parts[i])) }

C6_Candidate ==
    IF C5_PassingFields = {} THEN <<>> ELSE Strip(parts[MinOf(C5_PassingFields)])

C6_Segments == segments(C6_Candidate)

\* C6 as stated: every candidate with a comma gives "<last>: <first>" of its
\* trimmed non-empty segments; a candidate without a comma is kept verbatim.
C6_AsStated ==
    Yielded =>
        IF Contains(C6_Candidate, ",")
        THEN /\ C6_Segments # <<>>
             /\ stream[1][4] = C6_Segments[Len(C6_Segments)] \o <<":", " ">> \o C6_Segments[1]
        ELSE stream[1][4] = C6_Candidate

\* C6 amended: a candidate with a comma and at least one non-empty trimmed
\* segment gives "<last>: <first>"; a candidate with a comma and no non-empty
\* segment gives the empty city; a candidate without a comma is kept verbatim.
C6_Amended ==
    Yielded =>
        IF Contains(C6_Candidate, ",")
        THEN IF C6_Segments # <<>>
             THEN stream[1][4] = C6_Segments[Len(C6_Segments)] \o <<":", " ">> \o C6_Segments[1]
             ELSE stream[1][4] = <<>>
        ELSE stream[1][4] = C6_Candidate

C6_Witness ==
    /\ Yielded
    /\ C6_Candidate = <<"a", ",", "b", ",", "c">>
    /\ stream[1][4] = <<"c", ":", " ", "a">>

\* C7: line 59 runs at most once per line and only when the naive split has
\* at most MaxCol parts; with a longer naive split the parts are the naive
\* split and the yielded tuple is read from it.
C7_RepairOnlyWhenShort ==
    pc \in {"fix", "validate", "next", "flush"} =>
        /\ repairs <= 1
        /\ repairs = 1 => Len(NaiveParts) <= MaxCol
        /\ Len(NaiveParts) > MaxCol =>
            /\ repairs = 0
            /\ parts = NaiveParts
            /\ Yielded =>
                stream[1] = << Strip(NaiveParts[PHONE_COL + 1]),
                               Strip(NaiveParts[FIRST_COL + 1]),
                               Strip(NaiveParts[LAST_COL + 1]),
                               city_field(location_raw(NaiveParts)) >>

C7_Witness ==
    /\ Yielded
    /\ repairs = 0
    /\ NaiveParts[FIRST_COL + 1] = <<" ", "A">>
    /\ NaiveParts[LAST_COL + 1] = <<" ", "B">>
    /\ stream[1][2] = <<"A">>

\* the number of *.txt entries of the current directory that are files
C8_TxtFiles == Cardinality({ i \in 1..Len(cwdTxt) : cwdTxt[i] = "file" })

\* the start-up conditions under which no input may be used
C8_MustExit ==
    \/ nargs = 1 /\ ~argIsFile
    \/ nargs = 0 /\ C8_TxtFiles # 1

\* C8: with one argument that path is the input; with none the single *.txt
\* file of the current directory is, and only if it is the only one; in
\* every other case, and when the path is no file, the process ends with a
\* message and a non-zero status, having opened and written nothing.
C8_InputSelection ==
    /\ (nargs = 1 /\ pc # "main") => chosen = "arg"
    /\ (nargs = 0 /\ pc \notin {"main", "isfile", "exit"}) =>
            chosen = "cwd" /\ C8_TxtFiles = 1
    /\ C8_MustExit =>
        /\ pc \in {"main", "isfile", "exit"}
        /\ ~fileOpen /\ pos = 0 /\ calls = <<>> /\ written = <<>>
        /\ pc = "exit" => exit_status > 0 /\ message \in {"usage", "not_found"}
        /\ pc # "exit" => ENABLED Next

C8_Witness ==
    /\ pc = "exit"
    /\ nargs = 0
    /\ cwdTxt = <<"file", "file">>
    /\ message = "usage"
    /\ exit_status = 1

\* C9: once a write_chunk call has failed the process is over with a non-zero
\* status and the file closed; the failed call is the last call, so it was not
\* repeated and no later part was written. The file is closed whenever the
\* process has ended.
C9_WriteFailureFatal ==
    /\ pc \in {"exit", "failed", "done"} => ~fileOpen
    /\ Len(calls) # Len(written) =>
        /\ pc = "failed"
        /\ exit_status > 0
        /\ ~fileOpen
        /\ Len(calls) = Len(written) + 1
        /\ \A k \in 1..Len(written) : written[k].part < calls[Len(calls)]
        /\ \A i \in 1..Len(calls) : \A j \in 1..Len(calls) : i # j => calls[i] # calls[j]

C9_Witness ==
    /\ pc = "failed"
    /\ calls = <<1, 2>>
    /\ Len(written) = 1
    /\ pos < Len(file)

\* C10: the repair makes at most two parts more than the naive split has, so
\* a line whose naive split has fewer than MaxCol + 1 - 2 = 4 parts is
\* never yielded.
C10_RepairAddsAtMostTwo ==
    pc \in {"validate", "next", "flush"} =>
        /\ Len(parts) <= Len(NaiveParts) + 2
        /\ Len(NaiveParts) < 4 => stream = <<>> /\ (pc = "next" => dropped = 1)

C10_Witness ==
    /\ pc = "next"
    /\ dropped = 1
    /\ repairs = 1
    /\ Len(NaiveParts) = 3
    /\ Len(parts) = 5
    /\ Cardinality({ i \in 1..Len(line) : line[i] = " " }) >= 3

====
